---- MODULE Spec2Model ----
(***************************************************************************)
(* PsychSphere backend: the inquiry-submission workflow of main.py         *)
(* (validate -> persist -> schedule notification -> respond -> notify),    *)
(* the listing endpoint, the health-check endpoints and the SMTP notifier. *)
(* Texts are sequences of one-character strings, so that lengths and the   *)
(* shape of an email address are computed, not assumed.                    *)
(***************************************************************************)
EXTENDS Integers, Sequences, FiniteSets, TLC

VARIABLES
    env,         \* which settings the process environment holds (read at import)
    store,       \* the documents of the "inquiry" collection, in insertion order
    oidCounter,  \* the store's source of fresh identifiers
    req,         \* the POST /inquiries requests so far: position, body, parsed
                 \* inquiry, response, scheduled tasks, SMTP calls, event log
    out          \* the response to the latest GET request

vars == <<env, store, oidCounter, req, out>>

(* ------------------------------ bounds -------------------------------- *)
\* submissions POSTed in one behaviour
MaxReq == 2
\* submissions POSTed one after the other in SpecRead
MaxSeqReq == 5
\* largest explicit ?limit= value tried by GET /inquiries
MaxLimit == 2

(* ------------------------- program constants -------------------------- *)
NameMinLength == 2
MessageMinLength == 5
DefaultLimit == 50
MaxCollections == 10

\* Python's None
None == [type |-> "NoneType"]
\* a JSON object with no keys
EmptyObject == [k \in {} |-> <<>>]

(* ------------------------------ texts --------------------------------- *)
Jo == <<"J", "o">>
J == <<"J">>
GoodEmail == <<"a", "@", "b", ".", "c">>
NoAtEmail == <<"a", "b", ".", "c">>
NoDotEmail == <<"a", "@", "b", "c">>
NoLocalEmail == <<"@", "b", ".", "c">>
Hello == <<"H", "e", "l", "l", "o">>
Hell == <<"H", "e", "l", "l">>
Website == <<"w", "e", "b", "s", "i", "t", "e">>
Ads == <<"a", "d", "s">>

\* the object without one of its keys
Drop(obj, key) == [k \in DOMAIN obj \ {key} |-> obj[k]]

GoodBody == [name |-> Jo, email |-> GoodEmail, message |-> Hello]

\* the good body with the optional source given
SourcedBody == GoodBody @@ [source |-> Ads]

\* bodies that pass validation
ValidBodies == {GoodBody, SourcedBody}

\* the JSON bodies a client may POST to /inquiries (an object whose keys are
\* the fields present): the good body, the good body with one field left out
\* or spoilt, and two bodies with several faults
Bodies ==
    {GoodBody}
    \cup {Drop(GoodBody, k) : k \in {"name", "email", "message"}}
    \cup {[GoodBody EXCEPT !.name = J], [GoodBody EXCEPT !.message = Hell]}
    \cup {[GoodBody EXCEPT !.email = e] : e \in {NoAtEmail, NoDotEmail, NoLocalEmail}}
    \cup {EmptyObject, [name |-> J, email |-> NoAtEmail, message |-> Hell]}

Has(body, key) == key \in DOMAIN body

Range(seq) == {seq[i] : i \in 1..Len(seq)}
Last(seq) == seq[Len(seq)]
IsPrefix(a, b) == Len(a) <= Len(b) /\ SubSeq(b, 1, Len(a)) = a

(* ------------------------- schemas.py: Inquiry ------------------------- *)
\* EmailStr: exactly one "@", a non-empty local part, and a domain made of
\* non-empty labels separated by at least one "."
IsEmail(s) ==
    LET ats == {i \in 1..Len(s) : s[i] = "@"}
    IN  /\ Cardinality(ats) = 1
        /\ LET at == CHOOSE i \in ats : TRUE
               dom == SubSeq(s, at + 1, Len(s))
               dots == {i \in 1..Len(dom) : dom[i] = "."}
           IN  /\ at > 1
               /\ Len(dom) > 0
               /\ dots # {}
               /\ 1 \notin dots
               /\ Len(dom) \notin dots
               /\ \A i \in dots : (i + 1) \notin dots

\* faulty variant of NameErrors: min_length is not enforced
NameErrorsNoMin(body) ==
    IF ~Has(body, "name") THEN {<<"name", "missing">>} ELSE {}

\* name: str = Field(..., min_length=2)
NameErrors(body) ==
    IF ~Has(body, "name") THEN {<<"name", "missing">>}
    ELSE IF Len(body.name) < NameMinLength THEN {<<"name", "too_short">>}
    ELSE {}

\* email: EmailStr = Field(...)
EmailErrors(body) ==
    IF ~Has(body, "email") THEN {<<"email", "missing">>}
    ELSE IF ~IsEmail(body.email) THEN {<<"email", "invalid">>}
    ELSE {}

\* message: str = Field(..., min_length=5)
MessageErrors(body) ==
    IF ~Has(body, "message") THEN {<<"message", "missing">>}
    ELSE IF Len(body.message) < MessageMinLength THEN {<<"message", "too_short">>}
    ELSE {}

\* the field-level errors pydantic reports for a body
Violations(body) == NameErrors(body) \cup EmailErrors(body) \cup MessageErrors(body)

\* the Inquiry value built from a body that passed validation (defaults filled in)
Inquiry(body) ==
    [name |-> body.name,
     email |-> body.email,
     phone |-> IF Has(body, "phone") THEN body.phone ELSE None,
     message |-> body.message,
     source |-> IF Has(body, "source") THEN body.source ELSE Website,
     newsletter_opt_in |-> IF Has(body, "newsletter_opt_in")
                           THEN body.newsletter_opt_in ELSE FALSE]

(* ------------------------ store identifiers ---------------------------- *)
HexDigit(d) ==
    <<"0", "1", "2", "3", "4", "5", "6", "7", "8", "9",
      "a", "b", "c", "d", "e", "f">>[d + 1]

RECURSIVE Hex(_)
Hex(n) == IF n < 16 THEN <<HexDigit(n)>> ELSE Hex(n \div 16) \o <<HexDigit(n % 16)>>

\* the store-internal identifier object
ObjectId(n) == [type |-> "ObjectId", value |-> n]
\* str(x): the plain text rendering of an identifier
Str(x) == IF x.type = "ObjectId" THEN [type |-> "str", chars |-> Hex(x.value)] ELSE x

IsStr(x) == x.type = "str"

(* ------------------- database.py: the document store ------------------- *)
\* create_document("inquiry", inquiry) when the store accepts the write: the
\* document appended to the collection, the store's next identifier, and the
\* identifier handed back to the caller as text
create_document(st, ctr, inquiry) ==
    [store |-> Append(st, [_id |-> ObjectId(ctr)] @@ inquiry),
     counter |-> ctr + 1,
     id |-> Str(ObjectId(ctr))]

Min(a, b) == IF a < b THEN a ELSE b

\* the documents of st at the positions S, in collection order
Pick(st, S) ==
    [j \in 1..Cardinality(S) |->
        st[CHOOSE i \in S : Cardinality({x \in S : x <= i}) = j]]

\* get_documents("inquiry", {}, limit=limit) when the store answers: the
\* possible results, each a fresh copy of up to `limit` documents of the
\* collection (which ones is not promised)
get_documents(st, limit) ==
    {Pick(st, S) : S \in {T \in SUBSET (1..Len(st)) :
                            Cardinality(T) = Min(limit, Len(st))}}

\* db.list_collection_names(): a collection exists once a document was inserted
list_collection_names(st) == IF st = <<>> THEN <<>> ELSE <<"inquiry">>

(* ------------------------- main.py: settings --------------------------- *)
\* each environment variable is either set to a non-empty value or not
EnvVars == {"SMTP_HOST", "SMTP_USER", "SMTP_PASS", "TO_EMAIL", "OWNER_EMAIL"}

SMTP_HOST == env["SMTP_HOST"]
SMTP_USER == env["SMTP_USER"]
SMTP_PASS == env["SMTP_PASS"]
TO_EMAIL == env["TO_EMAIL"] \/ env["OWNER_EMAIL"]

\* faulty variant of Configured: either setting alone is taken to be enough
ConfiguredEither == SMTP_HOST \/ TO_EMAIL

\* the test of "if not (SMTP_HOST and TO_EMAIL): return"
Configured == SMTP_HOST /\ TO_EMAIL

(* ------------------------- requests in flight -------------------------- *)
NoResp == [status |-> 0]

InFlight == {r \in 1..Len(req) : req[r].pc # "closed"}

Set(r, fields) == req' = [req EXCEPT ![r] = fields @@ req[r]]

(* ---------------------- POST /inquiries: framework --------------------- *)
\* the request body is parsed into an Inquiry before the handler is called;
\* a body that fails validation is answered 422 and never reaches the handler
Accept(body) ==
    /\ req' = Append(req,
            IF Violations(body) # {}
            THEN [pc |-> "respond", body |-> body, inquiry |-> EmptyObject,
                  resp |-> [status |-> 422, detail |-> "validation error"],
                  tasks |-> <<>>, smtp |-> <<>>, log |-> <<"validate_failed">>]
            ELSE [pc |-> "validated", body |-> body, inquiry |-> Inquiry(body),
                  resp |-> NoResp,
                  tasks |-> <<>>, smtp |-> <<>>, log |-> <<"validate">>])
    /\ UNCHANGED <<env, store, oidCounter, out>>

\* requests arrive while earlier ones are still being served
Receive(body) ==
    /\ Len(req) < MaxReq
    /\ Accept(body)

\* a client that waits for one request to be over before posting the next
ReceiveNext(body) ==
    /\ Len(req) < MaxSeqReq
    /\ InFlight = {}
    /\ Accept(body)

(* ------------------- POST /inquiries: create_inquiry ------------------- *)
\* faulty variant of create_inquiry: the document is inserted twice
create_inquiry_twice(r) ==
    /\ req[r].pc = "validated"
    /\ \/ LET ins == create_document(store, oidCounter, req[r].inquiry)
              again == create_document(ins.store, ins.counter, req[r].inquiry)
          IN  /\ store' = again.store
              /\ oidCounter' = again.counter
              /\ Set(r, [pc |-> "respond",
                         tasks |-> Append(req[r].tasks, "send_inquiry_email"),
                         resp |-> [status |-> 200,
                                   body |-> [status |-> "ok", id |-> again.id]],
                         log |-> req[r].log \o <<"persist", "schedule">>])
       \/ /\ Set(r, [pc |-> "respond",
                     resp |-> [status |-> 500, detail |-> "storage error"],
                     log |-> req[r].log \o <<"persist_failed">>])
          /\ UNCHANGED <<store, oidCounter>>
    /\ UNCHANGED <<env, out>>

\* faulty variant of create_inquiry: an error raised after the insert went
\* through is answered 500 although the document is stored
create_inquiry_leak(r) ==
    /\ req[r].pc = "validated"
    /\ LET ins == create_document(store, oidCounter, req[r].inquiry)
       IN  /\ store' = ins.store
           /\ oidCounter' = ins.counter
           /\ \/ Set(r, [pc |-> "respond",
                         tasks |-> Append(req[r].tasks, "send_inquiry_email"),
                         resp |-> [status |-> 200,
                                   body |-> [status |-> "ok", id |-> ins.id]],
                         log |-> req[r].log \o <<"persist", "schedule">>])
              \/ Set(r, [pc |-> "respond",
                         resp |-> [status |-> 500, detail |-> "storage error"],
                         log |-> req[r].log \o <<"persist_failed">>])
    /\ UNCHANGED <<env, out>>

\* faulty variant of create_inquiry: a submission whose content is already
\* stored is answered with the stored record's id instead of being inserted
create_inquiry_dedup(r) ==
    /\ req[r].pc = "validated"
    /\ LET same == {i \in 1..Len(store) : Drop(store[i], "_id") = req[r].inquiry}
           ins == create_document(store, oidCounter, req[r].inquiry)
       IN  \/ /\ store' = IF same = {} THEN ins.store ELSE store
              /\ oidCounter' = IF same = {} THEN ins.counter ELSE oidCounter
              /\ Set(r, [pc |-> "respond",
                         tasks |-> Append(req[r].tasks, "send_inquiry_email"),
                         resp |-> [status |-> 200,
                                   body |-> [status |-> "ok",
                                             id |-> IF same = {} THEN ins.id
                                                    ELSE Str(store[CHOOSE i \in same : TRUE]._id)]],
                         log |-> req[r].log \o <<"persist", "schedule">>])
           \/ /\ Set(r, [pc |-> "respond",
                         resp |-> [status |-> 500, detail |-> "storage error"],
                         log |-> req[r].log \o <<"persist_failed">>])
              /\ UNCHANGED <<store, oidCounter>>
    /\ UNCHANGED <<env, out>>

\* faulty variant of create_inquiry: the notifier is scheduled before the insert
create_inquiry_schedule_first(r) ==
    /\ req[r].pc = "validated"
    /\ \/ LET ins == create_document(store, oidCounter, req[r].inquiry)
          IN  /\ store' = ins.store
              /\ oidCounter' = ins.counter
              /\ Set(r, [pc |-> "respond",
                         tasks |-> Append(req[r].tasks, "send_inquiry_email"),
                         resp |-> [status |-> 200,
                                   body |-> [status |-> "ok", id |-> ins.id]],
                         log |-> req[r].log \o <<"schedule", "persist">>])
       \/ /\ Set(r, [pc |-> "respond",
                     tasks |-> Append(req[r].tasks, "send_inquiry_email"),
                     resp |-> [status |-> 500, detail |-> "storage error"],
                     log |-> req[r].log \o <<"schedule", "persist_failed">>])
          /\ UNCHANGED <<store, oidCounter>>
    /\ UNCHANGED <<env, out>>

\* the handler body runs without yielding: insert, schedule the notifier,
\* return the success body; any exception becomes HTTP 500
create_inquiry(r) ==
    /\ req[r].pc = "validated"
    /\ \/ LET ins == create_document(store, oidCounter, req[r].inquiry)
          IN  /\ store' = ins.store
              /\ oidCounter' = ins.counter
              /\ Set(r, [pc |-> "respond",
                         tasks |-> Append(req[r].tasks, "send_inquiry_email"),
                         resp |-> [status |-> 200,
                                   body |-> [status |-> "ok", id |-> ins.id]],
                         log |-> req[r].log \o <<"persist", "schedule">>])
       \/ /\ Set(r, [pc |-> "respond",
                     resp |-> [status |-> 500, detail |-> "storage error"],
                     log |-> req[r].log \o <<"persist_failed">>])
          /\ UNCHANGED <<store, oidCounter>>
    /\ UNCHANGED <<env, out>>

\* the framework sends the prepared response; background tasks start only
\* after it, and a request with none is over
SendResponse(r) ==
    /\ req[r].pc = "respond"
    /\ IF req[r].tasks # <<>>
       THEN Set(r, [pc |-> "background", log |-> Append(req[r].log, "respond")])
       ELSE Set(r, [pc |-> "closed", body |-> EmptyObject, inquiry |-> EmptyObject,
                    log |-> Append(req[r].log, "respond")])
    /\ UNCHANGED <<env, store, oidCounter, out>>

(* -------------------- main.py: send_inquiry_email ---------------------- *)
\* the calls made on the SMTP transport so far, each with its outcome
Call(r, what) == Append(req[r].smtp, what)

\* if not (SMTP_HOST and TO_EMAIL): return
email_skip(r) ==
    /\ req[r].pc = "background"
    /\ ~Configured
    /\ Set(r, [pc |-> "done", log |-> Append(req[r].log, "notify")])
    /\ UNCHANGED <<env, store, oidCounter, out>>

\* faulty variant of email_connect: a connection failure replaces the response
email_connect_surfaced(r) ==
    /\ req[r].pc = "background"
    /\ Configured
    /\ \/ Set(r, [pc |-> "connected", smtp |-> Call(r, "connect"),
                  log |-> Append(req[r].log, "notify")])
       \/ Set(r, [pc |-> "done", smtp |-> Call(r, "connect_failed"),
                  resp |-> [status |-> 500, detail |-> "connection refused"],
                  log |-> Append(req[r].log, "notify")])
    /\ UNCHANGED <<env, store, oidCounter, out>>

\* with smtplib.SMTP(SMTP_HOST, SMTP_PORT, timeout=15) as server
email_connect(r) ==
    /\ req[r].pc = "background"
    /\ Configured
    /\ \/ Set(r, [pc |-> "connected", smtp |-> Call(r, "connect"),
                  log |-> Append(req[r].log, "notify")])
       \/ Set(r, [pc |-> "done", smtp |-> Call(r, "connect_failed"),
                  log |-> Append(req[r].log, "notify")])
    /\ UNCHANGED <<env, store, oidCounter, out>>

\* faulty variant of email_starttls: a failed upgrade is not swallowed
email_starttls_strict(r) ==
    /\ req[r].pc = "connected"
    /\ \/ Set(r, [pc |-> "upgraded", smtp |-> Call(r, "starttls")])
       \/ Set(r, [pc |-> "done", smtp |-> Call(r, "starttls_failed")])
    /\ UNCHANGED <<env, store, oidCounter, out>>

\* try: server.starttls()  except Exception: pass
email_starttls(r) ==
    /\ req[r].pc = "connected"
    /\ \/ Set(r, [pc |-> "upgraded", smtp |-> Call(r, "starttls")])
       \/ Set(r, [pc |-> "upgraded", smtp |-> Call(r, "starttls_failed")])
    /\ UNCHANGED <<env, store, oidCounter, out>>

\* if SMTP_USER and SMTP_PASS: server.login(SMTP_USER, SMTP_PASS)
email_login(r) ==
    /\ req[r].pc = "upgraded"
    /\ IF SMTP_USER /\ SMTP_PASS
       THEN \/ Set(r, [pc |-> "ready", smtp |-> Call(r, "login")])
            \/ Set(r, [pc |-> "done", smtp |-> Call(r, "login_failed")])
       ELSE Set(r, [pc |-> "ready"])
    /\ UNCHANGED <<env, store, oidCounter, out>>

\* server.sendmail(FROM_EMAIL, [TO_EMAIL], msg.as_string())
email_sendmail(r) ==
    /\ req[r].pc = "ready"
    /\ \/ Set(r, [pc |-> "done", smtp |-> Call(r, "sendmail")])
       \/ Set(r, [pc |-> "done", smtp |-> Call(r, "sendmail_failed")])
    /\ UNCHANGED <<env, store, oidCounter, out>>

\* the background task has returned or raised: nothing of it reaches the
\* response, which was sent before it started; the request is over
task_end(r) ==
    /\ req[r].pc = "done"
    /\ Set(r, [pc |-> "closed", body |-> EmptyObject, inquiry |-> EmptyObject,
               smtp |-> <<>>])
    /\ UNCHANGED <<env, store, oidCounter, out>>

(* --------------------------- GET endpoints ----------------------------- *)
read_root ==
    /\ out' = [path |-> "/", status |-> 200,
               body |-> [message |-> "PsychSphere API is running"]]
    /\ UNCHANGED <<env, store, oidCounter, req>>

hello ==
    /\ out' = [path |-> "/api/hello", status |-> 200,
               body |-> [message |-> "Hello from PsychSphere backend!"]]
    /\ UNCHANGED <<env, store, oidCounter, req>>

\* GET /test: db is None, or list_collection_names() answers, or it raises
test_database ==
    /\ \E url \in BOOLEAN :
        \/ out' = [path |-> "/test", status |-> 200,
                   body |-> [backend |-> "Running",
                             database |-> "Available but not initialized",
                             database_url |-> "None",
                             connection_status |-> "Not Connected",
                             collections |-> <<>>]]
        \/ out' = [path |-> "/test", status |-> 200,
                   body |-> [backend |-> "Running",
                             database |-> "Connected & Working",
                             database_url |-> IF url THEN "Set" ELSE "Not Set",
                             connection_status |-> "Connected",
                             collections |->
                                SubSeq(list_collection_names(store), 1,
                                       Min(MaxCollections,
                                           Len(list_collection_names(store))))]]
        \/ out' = [path |-> "/test", status |-> 200,
                   body |-> [backend |-> "Running",
                             database |-> "Connected but Error",
                             database_url |-> IF url THEN "Set" ELSE "Not Set",
                             connection_status |-> "Connected",
                             collections |-> <<>>]]
    /\ UNCHANGED <<env, store, oidCounter, req>>

\* faulty variant of ConvertIds: the identifiers are left as the store gave them
ConvertIdsSkipped(docs) == docs

\* d["_id"] = str(d["_id"]) on every returned document that has an _id
ConvertIds(docs) ==
    [j \in DOMAIN docs |->
        IF Has(docs[j], "_id") THEN [docs[j] EXCEPT !._id = Str(@)] ELSE docs[j]]

\* the ?limit= query parameter, 50 when absent
Limit(query) == IF Has(query, "limit") THEN query.limit ELSE DefaultLimit

Queries == {EmptyObject} \cup {[limit |-> n] : n \in 0..MaxLimit}

\* faulty variant of list_inquiries: the conversion is applied to the stored
\* documents themselves
list_inquiries_inplace(query) ==
    /\ \/ \E docs \in get_documents(store, Limit(query)) :
            /\ out' = [path |-> "/inquiries", query |-> query, limit |-> Limit(query),
                       status |-> 200, body |-> [items |-> ConvertIds(docs)]]
            /\ store' = [i \in DOMAIN store |->
                            IF store[i] \in Range(docs)
                            THEN [store[i] EXCEPT !._id = Str(@)] ELSE store[i]]
       \/ /\ out' = [path |-> "/inquiries", status |-> 500, detail |-> "storage error"]
          /\ store' = store
    /\ UNCHANGED <<env, oidCounter, req>>

\* GET /inquiries
list_inquiries(query) ==
    /\ \/ \E docs \in get_documents(store, Limit(query)) :
            out' = [path |-> "/inquiries", query |-> query, limit |-> Limit(query),
                    status |-> 200, body |-> [items |-> ConvertIds(docs)]]
       \/ out' = [path |-> "/inquiries", status |-> 500, detail |-> "storage error"]
    /\ UNCHANGED <<env, store, oidCounter, req>>

(* --------------------------- specification ----------------------------- *)
NoOut == [path |-> "", status |-> 0]

\* the submission workflow under every SMTP configuration, requests overlapping
Init ==
    /\ env \in [EnvVars -> BOOLEAN]
    /\ store = <<>>
    /\ oidCounter = 1
    /\ req = <<>>
    /\ out = NoOut

Workflow ==
    \/ \E r \in 1..Len(req) : create_inquiry(r)
    \/ \E r \in 1..Len(req) : SendResponse(r)
    \/ \E r \in 1..Len(req) : email_skip(r)
    \/ \E r \in 1..Len(req) : email_connect(r)
    \/ \E r \in 1..Len(req) : email_starttls(r)
    \/ \E r \in 1..Len(req) : email_login(r)
    \/ \E r \in 1..Len(req) : email_sendmail(r)
    \/ \E r \in 1..Len(req) : task_end(r)

Next ==
    \/ \E body \in Bodies : Receive(body)
    \/ Workflow

Spec == Init /\ [][Next]_vars

\* the whole HTTP surface, one submission at a time, with SMTP unset, set
\* without credentials, or fully set
ReadEnvs ==
    {[v \in EnvVars |-> FALSE],
     [v \in EnvVars |-> v \in {"SMTP_HOST", "TO_EMAIL"}],
     [v \in EnvVars |-> TRUE]}

ReadBodies == {SourcedBody, Drop(GoodBody, "message")}

InitRead ==
    /\ env \in ReadEnvs
    /\ store = <<>>
    /\ oidCounter = 1
    /\ req = <<>>
    /\ out = NoOut

NextRead ==
    \/ \E body \in ReadBodies : ReceiveNext(body)
    \/ Workflow
    \/ read_root
    \/ hello
    \/ test_database
    \/ \E query \in Queries : list_inquiries(query)

SpecRead == InitRead /\ [][NextRead]_vars

(* ------------------------- auxiliary vocabulary ------------------------ *)
Requests == 1..Len(req)
Status(r) == req[r].resp.status

\* the submissions answered 200 and the identifiers their responses carry
Succeeded == {r \in Requests : Status(r) = 200}
IdOf(r) == req[r].resp.body.id
StoredIds == {Str(store[i]._id) : i \in 1..Len(store)}

\* the notifier of r has been started (its first statement has run)
NotifierRan(r) == "notify" \in Range(req[r].log)

\* a body the data model forbids, in the words of the data model
Rejectable(body) ==
    \/ ~Has(body, "name") \/ ~Has(body, "email") \/ ~Has(body, "message")
    \/ Len(body.name) < 2
    \/ Len(body.message) < 5
    \/ ~IsEmail(body.email)

(* ------------------------------- C1 ------------------------------------ *)
\* C1: a submission whose name is shorter than 2 characters, whose message is
\* shorter than 5 characters, whose email is not a valid address or which lacks
\* a required field is answered 422; from then on it has no record in the store
\* (every stored record belongs to a submission answered 200) and no
\* notification of it is ever scheduled or attempted.
C1_InvalidRejected ==
    /\ \A r \in Requests :
        /\ (req[r].pc # "closed" /\ Rejectable(req[r].body)) => Status(r) = 422
        /\ Status(r) = 422 =>
            /\ req[r].pc \in {"respond", "closed"}
            /\ req[r].tasks = <<>>
            /\ req[r].smtp = <<>>
            /\ Range(req[r].log) \subseteq {"validate_failed", "respond"}
    /\ Len(store) = Cardinality(Succeeded)
    /\ StoredIds = {IdOf(r) : r \in Succeeded}

\* a rejected submission is over while another submission was stored
C1_Witness ==
    \E r, q \in Requests :
        /\ Status(r) = 422 /\ req[r].pc = "closed"
        /\ Status(q) = 200 /\ Len(store) = 1

(* ------------------------------- C2 ------------------------------------ *)
\* the records of the store that carry the identifier a response returned
RecordsOf(r) == {i \in 1..Len(store) : Str(store[i]._id) = IdOf(r)}

\* the handler has run for r
Handled(r) == req[r].pc # "validated" /\ Status(r) # 422

\* the store accepted the insert of r
Inserted(r) == "persist" \in Range(req[r].log)

\* the response is 200 {"status": "ok", "id": <non-empty text>} and exactly one
\* record of the store carries that id
OkWithOneRecord(r) ==
    /\ Status(r) = 200
    /\ req[r].resp.body.status = "ok"
    /\ IsStr(IdOf(r))
    /\ Len(IdOf(r).chars) > 0
    /\ Cardinality(RecordsOf(r)) = 1
    /\ req[r].pc # "closed" =>
        \A i \in RecordsOf(r) : Drop(store[i], "_id") = req[r].inquiry

\* C2 as stated: every valid submission the handler has served persisted exactly
\* one record and is answered 200 with a non-empty string id.
C2_EveryValidSubmissionStored ==
    \A r \in Requests : Handled(r) => OkWithOneRecord(r)

\* C2 amended: every valid submission whose insert the store accepted persisted
\* exactly one record and is answered 200 {"status": "ok", "id": <id>} with a
\* non-empty string id; the store holds one record per such submission.
C2_AcceptedSubmissionStored ==
    /\ \A r \in Requests : Inserted(r) => OkWithOneRecord(r)
    /\ Len(store) = Cardinality({r \in Requests : Inserted(r)})

\* a valid submission was stored and answered
C2_Witness ==
    \E r \in Requests :
        /\ req[r].pc = "respond" /\ Inserted(r)
        /\ req[r].body \in ValidBodies
        /\ Len(store) = 2

(* ------------------------------- C3 ------------------------------------ *)
\* the items of the last listing, when the last GET was a successful listing
Listed == out.path = "/inquiries" /\ out.status = 200
Items == out.body.items

InquiryFields == {"name", "email", "phone", "message", "source", "newsletter_opt_in"}

\* C3: a valid submission whose insert the store refused is answered 500 with an
\* error message, is not tried again (one failed insert, no later insert, no
\* notification), and no record of it, whole or partial, shows in a listing:
\* every listed item is a complete record of a submission answered 200.
C3_StorageFailure ==
    /\ \A r \in Requests :
        "persist_failed" \in Range(req[r].log) =>
            /\ Status(r) = 500
            /\ req[r].resp.detail # ""
            /\ IsPrefix(req[r].log, <<"validate", "persist_failed", "respond">>)
            /\ req[r].tasks = <<>>
            /\ req[r].pc \in {"respond", "closed"}
    /\ Len(store) = Cardinality(Succeeded)
    /\ Listed =>
        \A j \in 1..Len(Items) :
            /\ Items[j]._id \in {IdOf(r) : r \in Succeeded}
            /\ DOMAIN Items[j] = InquiryFields \cup {"_id"}

\* the first submission failed on the store, the second was stored, and the
\* listing made after both shows the one record
C3_Witness ==
    /\ Len(req) >= 2
    /\ Status(1) = 500 /\ req[1].pc = "closed"
    /\ Status(2) = 200
    /\ Listed /\ Len(Items) = 1

(* ------------------------------- C4 ------------------------------------ *)
NotifierStates == {"background", "connected", "upgraded", "ready", "done"}

\* the notifier of r ended by raising
NotifierFailed(r) ==
    /\ req[r].pc = "done"
    /\ req[r].smtp # <<>>
    /\ Last(req[r].smtp) \in {"connect_failed", "login_failed", "sendmail_failed"}

\* C4: whenever the notifier of a submission is pending, running, hung or ended
\* (with or without a failure), the submission's response is the 200 with the
\* inserted id that was sent before the notifier started, and its record is in
\* the store; no step of any process changes a 200 response or removes its
\* record.
C4_NotifierCannotFailResponse ==
    /\ [](\A r \in Requests :
            (req[r].pc \in NotifierStates \/ NotifierRan(r)) =>
                /\ OkWithOneRecord(r)
                /\ "respond" \in Range(req[r].log)
                /\ NotifierRan(r) =>
                     IsPrefix(<<"validate", "persist", "schedule", "respond", "notify">>,
                              req[r].log))
    /\ [][\A r \in Requests :
            Status(r) = 200 =>
                /\ req'[r].resp = req[r].resp
                /\ \E i \in 1..Len(store') : Str(store'[i]._id) = IdOf(r)]_vars

\* a notifier has failed after its submission was answered 200
C4_Witness ==
    \E r \in Requests : NotifierFailed(r) /\ Status(r) = 200

(* ------------------------------- C5 ------------------------------------ *)
\* C5: with the host or the recipient not configured, the notifier does nothing:
\* no transport call (connect, starttls, login, sendmail) is ever made and it
\* ends without an error; a valid submission succeeds as it does otherwise,
\* answered 200 exactly when the store accepted its insert.
C5_UnconfiguredNoop ==
    ~(SMTP_HOST /\ TO_EMAIL) =>
        \A r \in Requests :
            /\ req[r].smtp = <<>>
            /\ req[r].pc \notin {"connected", "upgraded", "ready"}
            /\ ~NotifierFailed(r)
            /\ Handled(r) => (Status(r) = 200 <=> Inserted(r))
            /\ Handled(r) => (Status(r) = 500 <=> ~Inserted(r))

\* the host is set but no recipient is, and the notifier of a stored
\* submission has returned
C5_Witness ==
    /\ SMTP_HOST /\ ~TO_EMAIL
    /\ \E r \in Requests : req[r].pc = "done" /\ Status(r) = 200 /\ NotifierRan(r)

(* ------------------------------- C6 ------------------------------------ *)
\* C6: after n successful submissions the store holds n records with pairwise
\* distinct identifiers, and the n responses carry exactly those identifiers,
\* each a different one, whether or not two submissions had the same content.
C6_NotIdempotent ==
    /\ Len(store) = Cardinality(Succeeded)
    /\ \A i, j \in 1..Len(store) : i # j => store[i]._id # store[j]._id
    /\ \A r, q \in Succeeded : r # q => IdOf(r) # IdOf(q)
    /\ {IdOf(r) : r \in Succeeded} = StoredIds

\* the same valid content was submitted twice and both submissions succeeded
C6_Witness ==
    /\ Cardinality(Succeeded) = 2
    /\ Len(store) = 2
    /\ Drop(store[1], "_id") = Drop(store[2], "_id")

(* ------------------------------- C7 ------------------------------------ *)
\* the limit the claim gives a listing request: the query's, 50 when absent
ClaimedLimit(query) == IF Has(query, "limit") THEN query.limit ELSE 50

\* C7: a successful listing holds at most L items (L the ?limit= value, 50 when
\* absent), each a stored record, no record twice, and each item's identifier
\* is a text, never the store's object type; a listing made with limit=2 of a
\* store of 5 records holds exactly 2 items; the only other answer is 500.
C7_Listing ==
    /\ [](out.path = "/inquiries" =>
            /\ out.status \in {200, 500}
            /\ out.status = 200 =>
                /\ out.limit = ClaimedLimit(out.query)
                /\ Len(Items) <= ClaimedLimit(out.query)
                /\ \A j \in 1..Len(Items) :
                    /\ IsStr(Items[j]._id)
                    /\ Items[j]._id.type # "ObjectId"
                    /\ \E i \in 1..Len(store) :
                        /\ Drop(Items[j], "_id") = Drop(store[i], "_id")
                        /\ Items[j]._id = Str(store[i]._id)
                /\ \A j, k \in 1..Len(Items) : j # k => Items[j]._id # Items[k]._id)
    /\ [][(out' # out /\ out'.path = "/inquiries" /\ out'.status = 200
           /\ out'.query = [limit |-> 2] /\ Len(store) = 5)
          => Len(out'.body.items) = 2]_vars

\* five records are stored and a listing with limit=2 returned two of them
C7_Witness ==
    /\ Len(store) = 5
    /\ Listed /\ out.query = [limit |-> 2] /\ Len(Items) = 2
    /\ Items[2]._id = Str(store[5]._id)

(* ------------------------------- C8 ------------------------------------ *)
\* C8: a step changes the stored collection only if it is a successful insert by
\* create_inquiry, which appends one record and leaves every earlier record as
\* it was; every other step (the GET endpoints, the id conversion of a listing,
\* a rejected or failed submission, the notifier) leaves the collection as it
\* is, so no stored record is ever modified or deleted.
C8_OnlyInsertMutates ==
    [][\/ store' = store
       \/ /\ Len(store') = Len(store) + 1
          /\ SubSeq(store', 1, Len(store)) = store
          /\ out' = out
          /\ \E r \in Requests :
                /\ req[r].pc = "validated"
                /\ Status(r) = 0
                /\ req'[r].resp.status = 200
                /\ Drop(store'[Len(store')], "_id") = req[r].inquiry]_vars

\* records are stored, a submission was rejected, and a listing has converted
\* the identifiers of its items while the stored ones are still objects
C8_Witness ==
    /\ Len(store) >= 2
    /\ \E r \in Requests : Status(r) = 422
    /\ Listed /\ Len(Items) >= 2
    /\ \A i \in 1..Len(store) : store[i]._id.type = "ObjectId"

(* ------------------------------- C9 ------------------------------------ *)
\* C9: the events of a submission follow the order validate, persist, schedule,
\* respond, run the notifier; the notification is scheduled exactly once when
\* the insert succeeded and never otherwise, and a submission whose insert
\* failed (500) or that was rejected never has one scheduled or run.
C9_Order ==
    \A r \in Requests :
        /\ \/ IsPrefix(req[r].log, <<"validate", "persist", "schedule", "respond", "notify">>)
           \/ IsPrefix(req[r].log, <<"validate", "persist_failed", "respond">>)
           \/ IsPrefix(req[r].log, <<"validate_failed", "respond">>)
        /\ Handled(r) => (Inserted(r) <=> req[r].tasks = <<"send_inquiry_email">>)
        /\ ~Inserted(r) => req[r].tasks = <<>>
        /\ Len(req[r].tasks) <= 1
        /\ Status(r) = 500 =>
            /\ req[r].tasks = <<>>
            /\ req[r].smtp = <<>>
            /\ req[r].pc \in {"respond", "closed"}
            /\ ~NotifierRan(r)
        /\ req[r].pc \in NotifierStates => Inserted(r) /\ Status(r) = 200

\* one submission went through all five events, another failed on the store
C9_Witness ==
    \E r, q \in Requests :
        /\ req[r].log = <<"validate", "persist", "schedule", "respond", "notify">>
        /\ req[q].log = <<"validate", "persist_failed", "respond">>

(* ------------------------------- C10 ----------------------------------- *)
LoginCalls == {"login", "login_failed"}
SendCalls == {"sendmail", "sendmail_failed"}

\* C10: once the connection is open, a failed starttls does not end the
\* notifier: login (attempted only when both user and password are set) and
\* sendmail follow it as they follow a successful one; a failed login is the
\* notifier's last call, so nothing is sent, and the submission stays answered
\* 200.
C10_UpgradeSwallowed ==
    \A r \in Requests :
        LET calls == req[r].smtp
            creds == SMTP_USER /\ SMTP_PASS
        IN  /\ (calls # <<>> /\ Last(calls) \in {"starttls", "starttls_failed"}) =>
                req[r].pc \in {"upgraded", "ready"}
            /\ (Range(calls) \cap LoginCalls # {}) => creds
            /\ (Len(calls) >= 3 /\ calls[2] \in {"starttls", "starttls_failed"}) =>
                calls[3] \in (IF creds THEN LoginCalls ELSE SendCalls)
            /\ (req[r].pc = "done" /\ Len(calls) >= 2) =>
                \/ Last(calls) = "login_failed"
                \/ Last(calls) \in SendCalls
            /\ "login_failed" \in Range(calls) =>
                /\ Last(calls) = "login_failed"
                /\ Range(calls) \cap SendCalls = {}
                /\ req[r].pc = "done"
            /\ calls # <<>> => Status(r) = 200 /\ SMTP_HOST /\ TO_EMAIL

\* the upgrade failed, then login and sendmail were still made
C10_Witness ==
    \E r \in Requests :
        req[r].smtp = <<"connect", "starttls_failed", "login", "sendmail">>

\* the upgrade failed and the login after it failed too: nothing was sent
C10_LoginFailedWitness ==
    \E r \in Requests :
        req[r].smtp = <<"connect", "starttls_failed", "login_failed">>
====
